---- MODULE Spec2Model ----
(***************************************************************************)
(* A model of render_static.engine.StaticTemplateEngine: lazy resolution   *)
(* of the STATIC_TEMPLATES configuration, of the template backends and of  *)
(* the per-template configuration, and render_to_disk (template lookup,    *)
(* destination resolution, context merge, write to disk).                  *)
(*                                                                         *)
(* Python values are encoded as follows.                                   *)
(*   Optional value : <<>> is None / an absent key, <<v>> is the value v.  *)
(*   dict str->int  : a function whose DOMAIN is the key set.              *)
(*   dotted path    : the sequence of its dot-separated segments.          *)
(*   path           : [kind, abs, parts]; kind tells str from Path.        *)
(*   object identity: dicts that the code shares by reference live in      *)
(*                    heap (configuration mappings) and classContext.      *)
(***************************************************************************)
EXTENDS Integers, Sequences, FiniteSets, TLC

VARIABLES
    hostSettings,   \* django.conf.settings: STATIC_TEMPLATES and STATIC_ROOT
    heap,           \* configuration mappings, by reference
    given,          \* the configuration mappings as their owner wrote them
    classContext,   \* the dict object of TemplateConfig.context_ (class level)
    engine,         \* the StaticTemplateEngine instance in use
    fs,             \* the filesystem: directories and files
    calls,          \* number of render_to_disk calls made so far
    overridden,     \* the template names so far rendered with a context override
    last            \* the last operation: its arguments and its outcome

vars == <<hostSettings, heap, given, classContext, engine, fs, calls, overridden, last>>

\* ------------------------------------------------------------------ bounds

MaxEngines == 2     \* longest ENGINES list drawn
MaxCalls == 2       \* render_to_disk calls in one behaviour

\* ----------------------------------------------------------- Python values

None == <<>>
Some(v) == <<v>>
Val(o) == o[1]

EmptyDict == [k \in {} |-> 0]

\* Merge with the left operand winning on a collision
MergeLeftWins(d1, d2) ==
    [k \in (DOMAIN d1) \cup (DOMAIN d2) |-> IF k \in DOMAIN d1 THEN d1[k] ELSE d2[k]]

\* {**d1, **d2} and d1.update(d2): every key of both, d2 wins on collision.
Merge(d1, d2) ==
    [k \in (DOMAIN d1) \cup (DOMAIN d2) |-> IF k \in DOMAIN d2 THEN d2[k] ELSE d1[k]]

\* The settings object handed to every template under the key 'settings'.
SettingsObject == 0

\* ------------------------------------------------------------------- paths

StrPath(isAbs, parts) == [kind |-> "str", abs |-> isAbs, parts |-> parts]

\* pathlib.Path(x)
Path(p) == [p EXCEPT !.kind = "Path"]

\* p / a / b
Div(p, segs) == [kind |-> "Path", abs |-> p.abs, parts |-> p.parts \o segs]

\* p.parent
Parent(p) ==
    IF p.parts = <<>> THEN p
    ELSE [p EXCEPT !.parts = SubSeq(p.parts, 1, Len(p.parts) - 1)]

\* truthiness of a str: the empty string is false
StrTruthy(p) == p.abs \/ p.parts # <<>>

\* every directory os.makedirs(p) has to create, p included
Ancestors(p) == { [p EXCEPT !.parts = SubSeq(p.parts, 1, n)] : n \in 1..Len(p.parts) }

\* -------------------------------------------------------------- exceptions

Exception(type, info) == [type |-> type, info |-> info]

ImproperlyConfigured(info) == Exception("ImproperlyConfigured", info)

\* --------------------------------------------------- ordered dict (py >= 3.7)

\* d[key] = value on a dict kept as a sequence of <<key, value>> pairs: a new
\* key goes last, a key already there keeps its place and takes the new value.
DictSet(d, key, value) ==
    IF \E i \in 1..Len(d) : d[i][1] = key
    THEN [i \in 1..Len(d) |-> IF d[i][1] = key THEN <<key, value>> ELSE d[i]]
    ELSE Append(d, <<key, value>>)

DictKeys(d) == [i \in 1..Len(d) |-> d[i][1]]

DictValues(d) == [i \in 1..Len(d) |-> d[i][2]]

Elems(seq) == { seq[i] : i \in 1..Len(seq) }

\* ---------------------------------------------------------------- backends

\* s.rsplit('.', maxsplit): at most maxsplit splits, made from the right.
RSplit(segs, maxsplit) ==
    IF Len(segs) <= maxsplit + 1
    THEN [i \in 1..Len(segs) |-> <<segs[i]>>]
    ELSE <<SubSeq(segs, 1, Len(segs) - maxsplit)>>
         \o [i \in 1..maxsplit |-> <<segs[Len(segs) - maxsplit + i]>>]

\* seq[-1]
Last(seq) == seq[Len(seq)]

\* the text of a dotted path of one segment
Text(segs) == segs[1]

AppDirectoriesLoader == <<"render_static", "loaders", "StaticAppDirectoriesLoader">>

DEFAULT_ENGINE_CONFIG ==
    << [BACKEND |-> Some(<<"render_static", "backends", "StaticDjangoTemplates">>),
        NAME |-> None,
        DIRS |-> Some(<<>>),
        APP_DIRS |-> None,
        OPTIONS |-> Some([loaders |-> <<AppDirectoriesLoader>>,
                          builtins |-> <<<<"render_static", "templatetags", "render_static">>>>])] >>

\* {'NAME': default_name, 'DIRS': [], 'APP_DIRS': False, 'OPTIONS': {}, **backend}
SetDefaults(backend, default_name) ==
    [NAME |-> IF backend.NAME = None THEN default_name ELSE Val(backend.NAME),
     DIRS |-> IF backend.DIRS = None THEN <<>> ELSE Val(backend.DIRS),
     APP_DIRS |-> IF backend.APP_DIRS = None THEN FALSE ELSE Val(backend.APP_DIRS),
     OPTIONS |-> IF backend.OPTIONS = None THEN EmptyDict ELSE Val(backend.OPTIONS),
     BACKEND |-> Val(backend.BACKEND)]

\* --------------------------------------- the template files of the backends

\* The template directories a backend may list in DIRS, and the templates of
\* the installed app, which an app-directories loader finds.
TemplateFiles == [dirA |-> {"t1.html", "t2.html"}, dirB |-> {"t2.html"}]

InstalledApp == [path |-> StrPath(TRUE, <<"apps", "app1">>)]

AppTemplates == {"t1.html"}

SearchesApps(instance) ==
    \/ instance.params.APP_DIRS
    \/ /\ "loaders" \in DOMAIN instance.params.OPTIONS
       /\ AppDirectoriesLoader \in Elems(instance.params.OPTIONS["loaders"])

\* engine.get_template(template_name): the template, with its origin, of the
\* first directory of DIRS that holds it, else of the app; None stands for
\* TemplateDoesNotExist.
GetTemplate(instance, template_name) ==
    LET dirs == instance.params.DIRS
        hits == { i \in 1..Len(dirs) : template_name \in TemplateFiles[dirs[i]] }
    IN  IF hits # {}
        THEN LET i == CHOOSE j \in hits : \A k \in hits : j <= k
             IN  Some([name |-> template_name, backend |-> instance.params.NAME,
                       origin |-> [name |-> <<dirs[i], template_name>>, app |-> None]])
        ELSE IF SearchesApps(instance) /\ template_name \in AppTemplates
        THEN Some([name |-> template_name, backend |-> instance.params.NAME,
                   origin |-> [name |-> <<"app1", template_name>>, app |-> Some(InstalledApp)]])
        ELSE None

\* template.render(context): the text depends on the template and its context
Render(template, context) == [template |-> template, context |-> context]

\* ------------------------------------------------------ the engine's state

\* One engine is in use at a time; constructing the next one drops it. What
\* outlives an instance is what the instances share: the class attributes, the
\* settings, the mapping the caller passes to the constructors, the disk.
\*
\* References to configuration mappings: the class attribute config_ = {},
\* settings.STATIC_TEMPLATES, the mapping the caller passes to the
\* constructor, and the {} an engine makes when the setting is None.
ClassConfigRef == <<"class", "">>
SettingsRef == <<"settings", "">>
ArgRef == <<"arg", "">>
NewRef == <<"new", "">>
Refs == {ClassConfigRef, SettingsRef, ArgRef, NewRef}

\* A configuration mapping: its known keys, each absent (None) or set, and
\* the set of its other keys.
Mapping(engines, context, templates, other) ==
    [ENGINES |-> engines, context |-> context, templates |-> templates, other |-> other]

EmptyMapping == Mapping(None, None, None, {})

\* bool(mapping): a dict is true when it has a key
DictTruthy(m) == m.ENGINES # None \/ m.context # None \/ m.templates # None \/ m.other # {}

\* The mutable state the engine's code reads and writes, as one value, and
\* what the running call has done so far: the backends it instantiated, the
\* template its lookup settled on, the context it rendered.
State ==
    [heap |-> heap, classContext |-> classContext, engine |-> engine, fs |-> fs,
     instantiated |-> <<>>, template |-> None, rendered |-> None]

\* A call's way out: the state it leaves, and its value or its exception.
Return(s, val) == [s |-> s, exc |-> None, val |-> val]

Raise(s, exc) == [s |-> s, exc |-> Some(exc), val |-> None]

\* statement sequencing: an exception of r propagates, else Continue(r) runs
Bind(r, Continue(_)) == IF r.exc # None THEN r ELSE Continue(r)

\* StaticTemplateEngine.__init__
NewEngine(s, config) ==
    [constructed |-> TRUE,
     config_ |-> IF config # None /\ DictTruthy(s.heap[Val(config)]) THEN Val(config)
                 ELSE ClassConfigRef,
     config |-> None, context |-> None, templates |-> None, engines |-> None]

NotConstructed ==
    [constructed |-> FALSE, config_ |-> ClassConfigRef,
     config |-> None, context |-> None, templates |-> None, engines |-> None]

\* cached_property config: the reference of the mapping in use
ConfigProp(s) ==
    IF s.engine.config # None THEN Return(s, Val(s.engine.config))
    ELSE LET fromSettings == ~DictTruthy(s.heap[s.engine.config_])
             ref == IF ~fromSettings THEN s.engine.config_
                    ELSE IF hostSettings.STATIC_TEMPLATES = "mapping" THEN SettingsRef
                    ELSE NewRef
             s1 == IF fromSettings /\ ref = NewRef
                   THEN [s EXCEPT !.engine.config_ = ref, !.heap[NewRef] = EmptyMapping]
                   ELSE [s EXCEPT !.engine.config_ = ref]
         IN  IF fromSettings /\ hostSettings.STATIC_TEMPLATES = "missing"
             THEN Raise(s, ImproperlyConfigured(<<"STATIC_TEMPLATES">>))
             ELSE IF s1.heap[ref].other # {}
             THEN Raise(s1, ImproperlyConfigured(<<"unrecognized">>))
             ELSE Return([s1 EXCEPT !.engine.config = Some(ref)], ref)

\* cached_property context: {'settings': settings, **global_ctx}
ContextProp(s) ==
    IF s.engine.context # None THEN Return(s, Val(s.engine.context))
    ELSE Bind(ConfigProp(s), LAMBDA c :
             LET global_ctx == IF c.s.heap[c.val].context = None THEN EmptyDict
                               ELSE Val(c.s.heap[c.val].context)
                 ctx == Merge([settings |-> SettingsObject], global_ctx)
             IN  Return([c.s EXCEPT !.engine.context = Some(ctx)], ctx))

\* TemplateConfig.__init__: context_ names the dict object the instance's
\* context_ is, the class attribute ("class") or the dict of the
\* configuration ("config"), which it keeps by reference.
TemplateConfigAnyDest(s, name, params) ==
    Return(s, [name |-> name,
               dest_ |-> IF params.dest # None THEN Some(Path(Val(params.dest))) ELSE None,
               context_ |-> IF params.context # None THEN "config" ELSE "class"])

TemplateConfig(s, name, params) ==
    IF params.dest # None /\ ~Path(Val(params.dest)).abs
    THEN Raise(s, ImproperlyConfigured(<<name, "dest must be absolute">>))
    ELSE Return(s, [name |-> name,
                    dest_ |-> IF params.dest # None THEN Some(Path(Val(params.dest))) ELSE None,
                    context_ |-> IF params.context # None THEN "config" ELSE "class"])

NoParams == [dest |-> None, context |-> None]

\* the dict comprehension of templates, over the items of the mapping in order
RECURSIVE BuildTemplates(_, _, _, _)
BuildTemplates(s, items, i, templates) ==
    IF i > Len(items) THEN Return(s, templates)
    ELSE Bind(TemplateConfig(s, items[i][1], items[i][2]), LAMBDA made :
             BuildTemplates(made.s, items, i + 1, DictSet(templates, items[i][1], made.val)))

\* cached_property templates
TemplatesProp(s) ==
    IF s.engine.templates # None THEN Return(s, Val(s.engine.templates))
    ELSE Bind(ConfigProp(s), LAMBDA c :
             Bind(BuildTemplates(c.s,
                                 IF c.s.heap[c.val].templates = None THEN <<>>
                                 ELSE Val(c.s.heap[c.val].templates),
                                 1, <<>>),
                  LAMBDA built :
                      Return([built.s EXCEPT !.engine.templates = Some(built.val)], built.val)))

\* Lines 232-255, the first loop of engines: alias and defaults of every
\* definition, in declaration order; an unusable BACKEND raises at once.
RECURSIVE CollectBackends(_, _, _, _, _)
CollectBackends(s, defs, i, engines, backend_names) ==
    IF i > Len(defs) THEN Return(s, [engines |-> engines, backend_names |-> backend_names])
    ELSE IF defs[i].BACKEND = None
    THEN Raise(s, ImproperlyConfigured(<<"<not defined>">>))
    ELSE LET default_name == Text(Last(RSplit(Val(defs[i].BACKEND), 2)))
             backend == SetDefaults(defs[i], default_name)
         IN  CollectBackends(s, defs, i + 1,
                             DictSet(engines, backend.NAME, backend),
                             Append(backend_names, backend.NAME))

Count(seq, x) == Cardinality({ i \in 1..Len(seq) : seq[i] = x })

\* the distinct elements of seq, in the order of their first occurrence
RECURSIVE Distinct(_)
Distinct(seq) ==
    IF seq = <<>> THEN <<>>
    ELSE LET front == Distinct(SubSeq(seq, 1, Len(seq) - 1))
         IN  IF Last(seq) \in Elems(front) THEN front ELSE Append(front, Last(seq))

\* Counter(seq).most_common(): (element, count) by falling count, elements of
\* equal count in the order of their first occurrence.
RECURSIVE MostCommonFrom(_, _)
MostCommonFrom(seq, n) ==
    IF n = 0 THEN <<>>
    ELSE [i \in 1..Len(SelectSeq(Distinct(seq), LAMBDA x : Count(seq, x) = n))
             |-> <<SelectSeq(Distinct(seq), LAMBDA x : Count(seq, x) = n)[i], n>>]
         \o MostCommonFrom(seq, n - 1)

MostCommon(seq) == MostCommonFrom(seq, Len(seq))

\* [alias for alias, count in counts.most_common() if count > 1]
DuplicatesFirstOnly(backend_names) ==
    LET all == DictKeys(SelectSeq(MostCommon(backend_names), LAMBDA ac : ac[2] > 1))
    IN  IF all = <<>> THEN <<>> ELSE <<all[1]>>

Duplicates(backend_names) ==
    DictKeys(SelectSeq(MostCommon(backend_names), LAMBDA ac : ac[2] > 1))

\* import_string(backend)(params): the live backend, params being the
\* definition with its defaults and without BACKEND.
Instantiate(config) ==
    [class |-> config.BACKEND,
     params |-> [NAME |-> config.NAME, DIRS |-> config.DIRS,
                 APP_DIRS |-> config.APP_DIRS, OPTIONS |-> config.OPTIONS]]

\* Lines 265-268, the second loop of engines: each alias gets its instance
InstantiateAll(s, engines) ==
    Return([s EXCEPT !.instantiated = @ \o DictKeys(engines)],
           [i \in 1..Len(engines) |-> <<engines[i][1], Instantiate(engines[i][2])>>])

\* Lines 232-270: the alias -> instance mapping of a list of definitions
ResolveBackends(s, defs) ==
    Bind(CollectBackends(s, defs, 1, <<>>, <<>>), LAMBDA collected :
        IF Duplicates(collected.val.backend_names) # <<>>
        THEN Raise(collected.s, ImproperlyConfigured(Duplicates(collected.val.backend_names)))
        ELSE InstantiateAll(collected.s, collected.val.engines))

\* Lines 223-230: ENGINES of the mapping in use, the default written into
\* the mapping when the key is absent
EngineDefs(s, ref) ==
    IF s.heap[ref].ENGINES = None
    THEN Return([s EXCEPT !.heap[ref].ENGINES = Some(DEFAULT_ENGINE_CONFIG)],
                DEFAULT_ENGINE_CONFIG)
    ELSE Return(s, Val(s.heap[ref].ENGINES))

\* cached_property engines
EnginesProp(s) ==
    IF s.engine.engines # None THEN Return(s, Val(s.engine.engines))
    ELSE Bind(ConfigProp(s), LAMBDA c :
             Bind(EngineDefs(c.s, c.val), LAMBDA defs :
                 Bind(ResolveBackends(defs.s, defs.val), LAMBDA engines :
                     Return([engines.s EXCEPT !.engine.engines = Some(engines.val)],
                            engines.val))))

\* __getitem__
GetItem(s, alias) ==
    Bind(EnginesProp(s), LAMBDA engines :
        IF alias \notin Elems(DictKeys(engines.val))
        THEN Raise(engines.s, Exception("InvalidTemplateEngineError", <<alias>>))
        ELSE Return(engines.s, (CHOOSE kv \in Elems(engines.val) : kv[1] = alias)[2]))

\* __iter__: the aliases in the mapping's order
Iter(s) == Bind(EnginesProp(s), LAMBDA engines : Return(engines.s, DictKeys(engines.val)))

\* all(): [self[alias] for alias in self]
All(s) ==
    Bind(Iter(s), LAMBDA aliases :
        Return(aliases.s, [i \in 1..Len(aliases.val) |-> GetItem(aliases.s, aliases.val[i]).val]))

\* ------------------------------------------------------------ render_to_disk

\* Lines 326-333: ask every backend of all(), in order, for the template; a
\* miss goes to chain, a hit is assigned to template.
RECURSIVE LookupLoopForgetsMisses(_, _, _, _, _)
LookupLoopForgetsMisses(backends, template_name, i, template, chain) ==
    IF i > Len(backends) THEN [template |-> template, chain |-> chain]
    ELSE IF GetTemplate(backends[i], template_name) = None
    THEN LookupLoopForgetsMisses(backends, template_name, i + 1, template,
                                 <<backends[i].params.NAME>>)
    ELSE LookupLoopForgetsMisses(backends, template_name, i + 1,
                                 GetTemplate(backends[i], template_name), chain)

RECURSIVE LookupLoop(_, _, _, _, _)
LookupLoop(backends, template_name, i, template, chain) ==
    IF i > Len(backends) THEN [template |-> template, chain |-> chain]
    ELSE IF GetTemplate(backends[i], template_name) = None
    THEN LookupLoop(backends, template_name, i + 1, template,
                    Append(chain, backends[i].params.NAME))
    ELSE LookupLoop(backends, template_name, i + 1,
                    GetTemplate(backends[i], template_name), chain)

\* Lines 326-335: the template, or TemplateDoesNotExist with the chain
FoundOrRaise(s, found) ==
    IF found.template = None
    THEN Raise(s, Exception("TemplateDoesNotExist", found.chain))
    ELSE Return([s EXCEPT !.template = found.template], Val(found.template))

Lookup(s, backends, template_name) ==
    FoundOrRaise(s, LookupLoop(backends, template_name, 1, None, <<>>))

\* Lines 337-357: where the template is written
ResolveDestConfiguredFirst(s, dest, config, template, template_name) ==
    IF config.dest_ # None THEN Return(s, Path(Val(config.dest_)))
    ELSE IF dest # None THEN Return(s, Path(Val(dest)))
    ELSE IF template.origin.app # None
    THEN Return(s, Div(Path(Val(template.origin.app).path), <<"static", template_name>>))
    ELSE IF hostSettings.STATIC_ROOT # None /\ StrTruthy(Val(hostSettings.STATIC_ROOT))
    THEN Return(s, Div(Path(Val(hostSettings.STATIC_ROOT)), <<template_name>>))
    ELSE Raise(s, ImproperlyConfigured(<<template_name, "no dest">>))

ResolveDest(s, dest, config, template, template_name) ==
    IF dest # None THEN Return(s, Path(Val(dest)))
    ELSE IF config.dest_ # None THEN Return(s, Path(Val(config.dest_)))
    ELSE IF template.origin.app # None
    THEN Return(s, Div(Path(Val(template.origin.app).path), <<"static", template_name>>))
    ELSE IF hostSettings.STATIC_ROOT # None /\ StrTruthy(Val(hostSettings.STATIC_ROOT))
    THEN Return(s, Div(Path(Val(hostSettings.STATIC_ROOT)), <<template_name>>))
    ELSE Raise(s, ImproperlyConfigured(<<template_name, "no dest">>))

\* dest.parent.exists()
Exists(files, p) == p \in files.dirs \/ p \in DOMAIN files.files

\* if not dest.parent.exists(): os.makedirs(str(dest.parent))
MakeParent(files, dest) ==
    IF Exists(files, Parent(dest)) THEN files
    ELSE [files EXCEPT !.dirs = @ \cup Ancestors(Parent(dest))]

\* with open(dest, 'w') as temp_out: temp_out.write(text)
WriteFile(files, dest, text) ==
    [files EXCEPT !.files = [p \in (DOMAIN @) \cup {dest} |-> IF p = dest THEN text ELSE @[p]]]

\* the place of template name in the 'templates' items of a mapping
IndexOf(items, name) == CHOOSE i \in 1..Len(items) : items[i][1] = name

\* self.templates.get(template_name, TemplateConfig(name=template_name))
ConfigFor(s, templates, template_name) ==
    IF template_name \in Elems(DictKeys(templates))
    THEN templates[IndexOf(templates, template_name)][2]
    ELSE TemplateConfig(s, template_name, NoParams).val

\* config.context: the dict object a TemplateConfig's context_ is
ContextOf(s, config) ==
    IF config.context_ = "class" THEN s.classContext
    ELSE Val(Val(s.heap[Val(s.engine.config)].templates)
                 [IndexOf(Val(s.heap[Val(s.engine.config)].templates), config.name)][2].context)

\* Lines 362-364: ctx = config.context, and ctx.update(context) on that object
UpdateContext(s, config, context) ==
    IF context = None THEN s
    ELSE IF config.context_ = "class"
    THEN [s EXCEPT !.classContext = Merge(@, Val(context))]
    ELSE [s EXCEPT !.heap[Val(s.engine.config)].templates =
             Some([Val(@) EXCEPT ![IndexOf(Val(@), config.name)][2].context =
                      Some(Merge(Val(@), Val(context)))])]

\* Lines 322-357, the part of render_to_disk before anything is written: the
\* lazy properties, the lookup and the destination, each with its early exit.
Prepare(s, template_name, dest) ==
    Bind(TemplatesProp(s), LAMBDA templates :
        Bind(All(templates.s), LAMBDA backends :
            Bind(Lookup(backends.s, backends.val, template_name), LAMBDA template :
                Bind(ResolveDest(template.s, dest,
                                 ConfigFor(s, templates.val, template_name),
                                 template.val, template_name),
                     LAMBDA resolved :
                         Return(resolved.s,
                                [config |-> ConfigFor(s, templates.val, template_name),
                                 template |-> template.val,
                                 dest |-> resolved.val])))))

\* Lines 366-374: the text is rendered with {**self.context, **ctx}, written
\* to dest, and dest is returned.
WriteRendered(s, ready, ctx) ==
    Bind(ContextProp(s), LAMBDA global :
        Return([global.s EXCEPT
                   !.fs = WriteFile(@, ready.dest,
                                    Render(ready.template, Merge(global.val, ctx))),
                   !.rendered = Some(Merge(global.val, ctx))],
               ready.dest))

\* Lines 359-364: the parent directory, then the context of the template
Updated(s, ready, context) ==
    UpdateContext([s EXCEPT !.fs = MakeParent(@, ready.dest)], ready.config, context)

\* Lines 359-374, run once the template and the destination are known; ctx
\* is the dict object of config.context as the update left it.
FinishFrom(s, ready) == WriteRendered(s, ready, ContextOf(s, ready.config))

Finish(s, ready, context) == FinishFrom(Updated(s, ready, context), ready)

RenderToDiskDirsFirst(s, template_name, context, dest) ==
    Bind(Prepare(IF dest = None THEN s ELSE [s EXCEPT !.fs = MakeParent(@, Path(Val(dest)))],
                 template_name, dest),
         LAMBDA ready : Finish(ready.s, ready.val, context))

RenderToDisk(s, template_name, context, dest) ==
    Bind(Prepare(s, template_name, dest), LAMBDA ready : Finish(ready.s, ready.val, context))

\* ------------------------------------------------------------------ inputs

DjangoBackend == <<"render_static", "backends", "StaticDjangoTemplates">>
Jinja2Backend == <<"render_static", "backends", "StaticJinja2Templates">>

BackendDef(backend, name, dirs, app_dirs) ==
    [BACKEND |-> backend, NAME |-> name, DIRS |-> dirs, APP_DIRS |-> app_dirs,
     OPTIONS |-> None]

\* The backend definitions ENGINES is drawn from: an app-directories backend
\* (holds t1.html, owned by the app), a backend over dirA (t1.html, t2.html),
\* a backend over dirB (t2.html) whose NAME repeats the first one's derived
\* alias, and a definition without BACKEND.
AppBackend == BackendDef(Some(DjangoBackend), None, None, Some(TRUE))
DirABackend == BackendDef(Some(Jinja2Backend), None, Some(<<"dirA">>), None)
DirBBackend == BackendDef(Some(Jinja2Backend), Some("StaticDjangoTemplates"), Some(<<"dirB">>), None)
NoBackend == BackendDef(None, None, None, None)

BackendDefs == {AppBackend, DirABackend, DirBBackend, NoBackend}

SeqsUpTo(S, n) == UNION { [1..k -> S] : k \in 0..n }

\* two lists in which two aliases are each given twice
TwiceTwo ==
    { <<AppBackend, DirBBackend, DirABackend, DirABackend>>,
      <<DirABackend, AppBackend, DirABackend, DirBBackend>> }

EngineLists ==
    {None} \cup { Some(defs) : defs \in SeqsUpTo(BackendDefs, MaxEngines) \cup TwiceTwo }

GlobalContexts == {None, Some([a |-> 1, b |-> 2])}

TemplateNames == {"t1.html", "t2.html", "t3.html"}

ConfiguredTemplates ==
    Some(<< <<"t1.html", [dest |-> None, context |-> Some([b |-> 3, c |-> 4])]>>,
            <<"t2.html", [dest |-> Some(StrPath(TRUE, <<"cfg", "t2.out">>)), context |-> None]>> >>)

RelativeDest ==
    Some(<< <<"t2.html", [dest |-> Some(StrPath(FALSE, <<"rel", "t2.out">>)), context |-> None]>> >>)

TemplateMaps == {None, ConfiguredTemplates, RelativeDest}

OtherKeys == {{}, {"bogus"}}

StaticRoots == {None, Some(StrPath(TRUE, <<"static_root">>))}

BaseEngines == Some(<<DirABackend, AppBackend>>)

BaseSettings == [STATIC_TEMPLATES |-> "mapping", STATIC_ROOT |-> Some(StrPath(TRUE, <<"static_root">>))]

\* The starting points drawn, each the settings and the configuration the
\* caller holds (settings.STATIC_TEMPLATES, when a mapping, is that too):
\* every ENGINES list with one context and one 'templates'; every context,
\* 'templates', unknown key and STATIC_ROOT with one ENGINES list; and settings
\* without STATIC_TEMPLATES, or with None for it.
Scenarios ==
    { [settings |-> BaseSettings,
       config |-> Mapping(en, Some([a |-> 1, b |-> 2]), ConfiguredTemplates, {})] :
          en \in EngineLists }
    \cup { [settings |-> [BaseSettings EXCEPT !.STATIC_ROOT = root],
            config |-> Mapping(BaseEngines, g, t, o)] :
              root \in StaticRoots, g \in GlobalContexts, t \in TemplateMaps, o \in OtherKeys }
    \cup { [settings |-> [BaseSettings EXCEPT !.STATIC_TEMPLATES = st],
            config |-> Mapping(None, Some([a |-> 1, b |-> 2]), None, {})] :
              st \in {"missing", "None"} }

Overrides == {None, Some([c |-> 5, d |-> 6])}

DestArgs == {None, Some(StrPath(TRUE, <<"out", "o.html">>))}

Aliases == {"StaticJinja2Templates"}

\* ------------------------------------------------------------------ actions

Root == [kind |-> "Path", abs |-> TRUE, parts |-> <<>>]

NoCall ==
    [op |-> "none", config |-> None, template_name |-> "", context |-> None, dest |-> None,
     alias |-> "", exc |-> None, ret |-> None, template |-> None, rendered |-> None,
     aliases |-> <<>>, instances |-> <<>>, instantiated |-> <<>>]

Init ==
    /\ \E scenario \in Scenarios :
          /\ hostSettings = scenario.settings
          /\ heap = [r \in Refs |->
                        IF r = ArgRef \/ (r = SettingsRef /\ scenario.settings.STATIC_TEMPLATES = "mapping")
                        THEN scenario.config ELSE EmptyMapping]
    /\ given = heap
    /\ classContext = EmptyDict
    /\ engine = NotConstructed
    /\ fs = [dirs |-> {Root} \cup Ancestors(Path(InstalledApp.path)), files |-> <<>>]
    /\ calls = 0
    /\ overridden = {}
    /\ last = NoCall

\* the variables after an operation that left the state s
Becomes(s) ==
    /\ heap' = s.heap
    /\ classContext' = s.classContext
    /\ engine' = s.engine
    /\ fs' = s.fs
    /\ UNCHANGED <<hostSettings, given>>

\* engine = StaticTemplateEngine(config)
Construct(config) ==
    /\ Becomes([State EXCEPT !.engine = NewEngine(State, config)])
    /\ last' = [NoCall EXCEPT !.op = "__init__", !.config = config]
    /\ UNCHANGED <<calls, overridden>>

\* engine.engines
GetEngines ==
    /\ engine.constructed
    /\ \E r \in {EnginesProp(State)} :
           /\ Becomes(r.s)
           /\ last' = [NoCall EXCEPT !.op = "engines", !.exc = r.exc,
                          !.aliases = DictKeys(r.val), !.instances = DictValues(r.val),
                          !.instantiated = r.s.instantiated]
    /\ UNCHANGED <<calls, overridden>>

\* engine[alias]
CallGetItem(alias) ==
    /\ engine.constructed
    /\ \E r \in {GetItem(State, alias)} :
           /\ Becomes(r.s)
           /\ last' = [NoCall EXCEPT !.op = "__getitem__", !.alias = alias, !.exc = r.exc,
                          !.instances = IF r.exc = None THEN <<r.val>> ELSE <<>>,
                          !.instantiated = r.s.instantiated]
    /\ UNCHANGED <<calls, overridden>>

\* list(engine)
CallIter ==
    /\ engine.constructed
    /\ \E r \in {Iter(State)} :
           /\ Becomes(r.s)
           /\ last' = [NoCall EXCEPT !.op = "__iter__", !.exc = r.exc, !.aliases = r.val,
                          !.instantiated = r.s.instantiated]
    /\ UNCHANGED <<calls, overridden>>

\* engine.all()
CallAll ==
    /\ engine.constructed
    /\ \E r \in {All(State)} :
           /\ Becomes(r.s)
           /\ last' = [NoCall EXCEPT !.op = "all", !.exc = r.exc, !.instances = r.val,
                          !.instantiated = r.s.instantiated]
    /\ UNCHANGED <<calls, overridden>>

\* engine.render_to_disk(template_name, context, dest)
CallRenderToDisk(template_name, context, dest) ==
    /\ engine.constructed
    /\ calls < MaxCalls
    /\ \E r \in {RenderToDisk(State, template_name, context, dest)} :
           /\ Becomes(r.s)
           /\ last' = [NoCall EXCEPT !.op = "render_to_disk",
                          !.template_name = template_name, !.context = context,
                          !.dest = dest, !.exc = r.exc,
                          !.ret = IF r.exc = None THEN Some(r.val) ELSE None,
                          !.template = r.s.template, !.rendered = r.s.rendered,
                          !.instantiated = r.s.instantiated]
    /\ calls' = calls + 1
    /\ overridden' = IF context # None THEN overridden \cup {template_name} ELSE overridden

Next ==
    \/ \E config \in {None, Some(ArgRef)} : Construct(config)
    \/ GetEngines
    \/ \E alias \in Aliases : CallGetItem(alias)
    \/ CallIter
    \/ CallAll
    \/ \E template_name \in TemplateNames, context \in Overrides, dest \in DestArgs :
          CallRenderToDisk(template_name, context, dest)

Spec == Init /\ [][Next]_vars

\* ------------------------------------------------------------------ claims

\* the mapping the engine in use reads, as its owner wrote it
AsGiven == given[engine.config_]

\* the global 'context' as configured
GivenGlobal == IF AsGiven.context = None THEN EmptyDict ELSE Val(AsGiven.context)

\* the 'templates' entry of a name in a mapping, NoParams when it has none
ParamsIn(m, name) ==
    IF m.templates # None /\ name \in Elems(DictKeys(Val(m.templates)))
    THEN Val(m.templates)[IndexOf(Val(m.templates), name)][2]
    ELSE NoParams

\* the per-template 'context' of a name as configured
GivenContext(name) ==
    IF ParamsIn(AsGiven, name).context = None THEN EmptyDict
    ELSE Val(ParamsIn(AsGiven, name).context)

HasRelativeDest(m) ==
    /\ m.templates # None
    /\ \E i \in 1..Len(Val(m.templates)) :
          /\ Val(m.templates)[i][2].dest # None
          /\ ~Val(Val(m.templates)[i][2].dest).abs

\* the alias of a backend definition: NAME, else the last segment of BACKEND
AliasOf(def) == IF def.NAME # None THEN Val(def.NAME) ELSE Last(Val(def.BACKEND))

\* the aliases that more than one definition of a list resolves to
Repeated(defs) ==
    { AliasOf(defs[i]) : i \in { k \in 1..Len(defs) :
          \E j \in 1..Len(defs) : j # k /\ AliasOf(defs[j]) = AliasOf(defs[k]) } }

Raised(type) == last.exc # None /\ Val(last.exc).type = type

Rendered == last.op = "render_to_disk" /\ last.exc = None

\* the live backends of the engine in use, in the order of its mapping
Backends == DictValues(Val(engine.engines))

\* C1: when two or more backends resolve the name, render_to_disk renders the
\* template of the earliest backend, in ENGINES order, that resolves it.
C1_EarliestBackendRendered ==
    Rendered =>
        \A i \in 1..Len(Backends) :
            (/\ GetTemplate(Backends[i], last.template_name) # None
             /\ \A j \in 1..(i - 1) : GetTemplate(Backends[j], last.template_name) = None)
            => last.template = GetTemplate(Backends[i], last.template_name)

\* the per-template settings of every configuration mapping
TemplateSettings == [r \in Refs |-> heap[r].templates]

\* C2: a render_to_disk call with a context override leaves the per-template
\* context of the cached template configuration as it was before the call.
C2_OverrideLeavesTemplateContext ==
    [][(last'.op = "render_to_disk" /\ last'.context # None)
          => TemplateSettings' = TemplateSettings]_vars

\* the four layers of the context of the last call, in merge order
Layers ==
    << [settings |-> SettingsObject], GivenGlobal, GivenContext(last.template_name),
       IF last.context = None THEN EmptyDict ELSE Val(last.context) >>

C4_DestPriority ==
    (last.op = "render_to_disk" /\ last.template # None) =>
        IF last.dest # None
        THEN last.ret = Some(Path(Val(last.dest)))
        ELSE IF ParamsIn(AsGiven, last.template_name).dest # None
        THEN last.ret = Some(Path(Val(ParamsIn(AsGiven, last.template_name).dest)))
        ELSE IF Val(last.template).origin.app # None
        THEN last.ret = Some(Div(Path(Val(Val(last.template).origin.app).path),
                                 <<"static", last.template_name>>))
        ELSE IF hostSettings.STATIC_ROOT # None
        THEN last.ret = Some(Div(Path(Val(hostSettings.STATIC_ROOT)), <<last.template_name>>))
        ELSE last.ret = None /\ Raised("ImproperlyConfigured")

\* a call given a dest for a template that has a configured dest too
C4_Witness ==
    /\ Rendered
    /\ last.dest # None
    /\ ParamsIn(AsGiven, last.template_name).dest # None
    /\ last.ret = Some(Path(Val(last.dest)))
    /\ last.ret # Some(Path(Val(ParamsIn(AsGiven, last.template_name).dest)))

C6_MissChain ==
    /\ Raised("TemplateDoesNotExist") =>
          /\ engine.engines # None
          /\ Len(Val(last.exc).info) = Len(Val(heap[engine.config_].ENGINES))
          /\ \A i \in 1..Len(Val(last.exc).info) :
                Val(last.exc).info[i] = AliasOf(Val(heap[engine.config_].ENGINES)[i])
    /\ (/\ last.op = "render_to_disk"
        /\ engine.templates # None
        /\ engine.engines # None
        /\ \A i \in 1..Len(Backends) : GetTemplate(Backends[i], last.template_name) = None)
       => Raised("TemplateDoesNotExist")

\* a name that neither of two backends resolves
C6_Witness ==
    /\ Raised("TemplateDoesNotExist")
    /\ Len(Val(engine.engines)) = 2
    /\ Len(Val(last.exc).info) = 2

\* C7: with every BACKEND usable, reading engines of a list in which an alias
\* repeats raises ImproperlyConfigured naming every repeated alias, and no
\* backend is instantiated; otherwise it gives one entry per definition, the
\* aliases in declaration order.
C7_BackendResolution ==
    (/\ last.op = "engines"
     /\ engine.config # None
     /\ \A i \in 1..Len(Val(heap[engine.config_].ENGINES)) :
           Val(heap[engine.config_].ENGINES)[i].BACKEND # None)
    => IF Repeated(Val(heap[engine.config_].ENGINES)) # {}
       THEN /\ Raised("ImproperlyConfigured")
            /\ Elems(Val(last.exc).info) = Repeated(Val(heap[engine.config_].ENGINES))
            /\ last.instantiated = <<>>
            /\ engine.engines = None
       ELSE /\ last.exc = None
            /\ last.aliases = [i \in 1..Len(Val(heap[engine.config_].ENGINES)) |->
                                  AliasOf(Val(heap[engine.config_].ENGINES)[i])]
            /\ Len(last.instances) = Len(Val(heap[engine.config_].ENGINES))
            /\ engine.engines # None

\* engines read from a list in which two aliases repeat
C7_Witness ==
    /\ last.op = "engines"
    /\ engine.config # None
    /\ heap[engine.config_].ENGINES # None
    /\ Val(heap[engine.config_].ENGINES) \in TwiceTwo
    /\ Cardinality(Elems(Val(last.exc).info)) = 2

\* C8: the filesystem changes only in a render_to_disk call that returns: a
\* call that raises (TemplateDoesNotExist, ImproperlyConfigured) has created
\* no directory and written no file.
C8_RaisingCallLeavesDisk ==
    [][fs' # fs => (last'.op = "render_to_disk" /\ last'.exc = None)]_vars

\* a call that found its template and raised for want of a destination, on a
\* disk an earlier call has written to
C8_Witness ==
    /\ last.op = "render_to_disk"
    /\ last.template # None
    /\ Raised("ImproperlyConfigured")
    /\ DOMAIN fs.files # {}

\* C9: a render_to_disk call without override, of a template without
\* configured context, after calls that passed overrides only for other
\* templates without configured context, renders settings + global context.
C9_OverridesIsolated ==
    (/\ Rendered
     /\ last.context = None
     /\ last.template_name \notin overridden
     /\ \A name \in overridden \cup {last.template_name} : \A r \in Refs :
           ParamsIn(given[r], name).context = None)
    => Val(last.rendered) = Merge([settings |-> SettingsObject], GivenGlobal)

\* the operations that resolve the backends and pass no context
ResolvingCall(call) ==
    \/ call.op \in {"engines", "__getitem__", "__iter__", "all"}
    \/ call.op = "render_to_disk" /\ call.context = None

\* C10: resolving the backends leaves the configuration mapping the caller
\* supplied (and the one of the settings) with the keys and values it had.
C10_ResolvingLeavesMapping ==
    [][ResolvingCall(last')
          => (heap'[ArgRef] = heap[ArgRef] /\ heap'[SettingsRef] = heap[SettingsRef])]_vars


====
